---------------------------- MODULE Spec2Model ----------------------------
(***************************************************************************)
(* perfrunner: the configuration-file helpers                              *)
(* (perfrunner/helpers/config_files.py) and the connection-string builder  *)
(* of the SDK 4 client wrappers (spring/cbgen4.py).                        *)
(*                                                                         *)
(* Conventions.  A Python dict is a TLA+ function whose DOMAIN is the set  *)
(* of its keys, so that "key absent" is a fact of the model.  A Python str *)
(* that the code cuts, joins or rewrites is a sequence of tokens, chosen   *)
(* so that every substring the code looks for is a whole token.  An        *)
(* instance attribute that may not have been assigned yet is tracked in    *)
(* attrs, the set of attribute names the instance holds.                   *)
(***************************************************************************)
EXTENDS Integers, Sequences, FiniteSets, TLC

VARIABLES
    kind,          \* the class of the file object
    file_type,     \* ConfigFile.file_type
    source_file,   \* ConfigFile.source_file
    dest_file,     \* ConfigFile.dest_file
    attrs,         \* which of all_configs, config, ini_config are assigned
    all_configs,   \* ConfigFile.all_configs
    config,        \* ConfigFile.config (the same object as all_configs[0])
    ini_config,    \* ConfigFile.ini_config
    version,       \* CAOFiles.version
    test_config,   \* the TestConfig / ClusterSpec values the setters read
    fs,            \* the file system: path -> content, for the files that exist
    pc,            \* "idle", or "body" inside a with-block
    raised,        \* the exception the last call raised, or "none"
    last,          \* the last call and its arguments
    calls,         \* the calls that changed a document so far
    connstr        \* cbgen4: the connection string of the client built last

vars == << kind, file_type, source_file, dest_file, attrs, all_configs, config,
           ini_config, version, test_config, fs, pc, raised, last, calls, connstr >>

fileVars == << kind, file_type, source_file, dest_file, attrs, all_configs,
               config, ini_config, version, test_config, fs, pc, raised, calls >>

-----------------------------------------------------------------------------
(* Bounds of the model.                                                    *)

MaxDocs == 2        \* documents in one YAML stream
MaxCalls == 2       \* calls that change a document, per file object
MaxVal == 2         \* values a caller stores into a generic document
MaxNodes == 2       \* nodes of the cluster spec
MaxHostParts == 2   \* tokens of a host name

-----------------------------------------------------------------------------
(* Python dict and str operations.                                         *)

EmptyDict == << >>

Has(d, k) == k \in DOMAIN d

Put(d, k, v) == [x \in (DOMAIN d) \cup {k} |-> IF x = k THEN v ELSE d[x]]

Update(d, e) ==
    [x \in (DOMAIN d) \cup (DOMAIN e) |-> IF x \in DOMAIN e THEN e[x] ELSE d[x]]

Pop(d, k) == [x \in (DOMAIN d) \ {k} |-> d[x]]

\* str.replace(old, new) on a token sequence; new is a token sequence.
RECURSIVE Replace(_, _, _)
Replace(s, old, new) ==
    IF s = << >> THEN << >>
    ELSE (IF Head(s) = old THEN new ELSE << Head(s) >>) \o Replace(Tail(s), old, new)

EndsWith(s, suffix) == Len(s) > 0 /\ s[Len(s)] = suffix

RemoveSuffix(s, suffix) ==
    IF EndsWith(s, suffix) THEN SubSeq(s, 1, Len(s) - 1) ELSE s

-----------------------------------------------------------------------------
(* FileType and the paths of the modelled file objects.                    *)

INI == "INI"
YAML == "YAML"
JSON == "JSON"

Kinds == {"ini", "json", "yaml", "cluster", "bucket"}

ClusterTemplateName == << "couchbase-cluster", "_template" >>
BucketTemplateName == << "bucket", "_template" >>
BucketName == "bucket-1"

CAOTemplatePath(template_name) ==
    << "cloud/operator/templates/" >> \o template_name \o << ".yaml" >>

CAODestPath(template_name) ==
    << "cloud/operator/" >> \o RemoveSuffix(template_name, "_template") \o << ".yaml" >>

FilePath(k) ==
    CASE k = "ini" -> << "tests/kv", ".test" >>
      [] k = "json" -> << "timings", ".json" >>
      [] k = "yaml" -> << "cloud/worker", ".yaml" >>
      [] k = "cluster" -> CAOTemplatePath(ClusterTemplateName)
      [] k = "bucket" -> CAOTemplatePath(BucketTemplateName)

DestPath(k) ==
    CASE k = "cluster" -> CAODestPath(ClusterTemplateName)
      [] k = "bucket" -> << "cloud/operator/", BucketName, ".yaml" >>
      [] OTHER -> FilePath(k)

_get_type(path) ==
    IF EndsWith(path, ".yaml") THEN YAML
    ELSE IF EndsWith(path, ".json") THEN JSON
    ELSE INI

\* ConfigFile.__init__: the file type given by the class, or found from the path.
InitFileType(k) ==
    CASE k \in {"cluster", "bucket"} -> YAML
      [] k = "json" -> JSON
      [] OTHER -> _get_type(FilePath(k))

-----------------------------------------------------------------------------
(* File contents.  A YAML file holds a stream of documents, a JSON file    *)
(* one object, an INI file one table of options.  The parsers and dumpers  *)
(* are external libraries: what the helper decides is which of its         *)
(* attributes goes into the file and what it builds from what comes back.  *)
(* The documents here are mappings with string keys whose values are       *)
(* strings, numbers, booleans, lists and such mappings: PyYAML and json    *)
(* give these back as they were (a dumped mapping has its keys sorted,     *)
(* which a dict does not see), so a file is modelled by the documents it   *)
(* holds and the format that holds them.  The INI reader and writer is     *)
(* perfrunner.settings.Config: read as parsing the options of the file and *)
(* writing the parsed options out.                                         *)

YamlContent(docs) == [fmt |-> YAML, docs |-> docs]
JsonContent(obj) == [fmt |-> JSON, docs |-> << obj >>]
IniContent(options) == [fmt |-> INI, docs |-> << options >>]

\* list(yaml.load_all(file)): every document of the stream, in order.
yaml_load_all(content) == content.docs

\* yaml.dump_all(all_configs, file): one document per element, in order.
yaml_dump_all(docs) == YamlContent(docs)

\* json.load(file): the one object of the file.
json_load(content) == content.docs[1]

\* json.dump(config, file): the one object.
json_dump(obj) == JsonContent(obj)

\* Config.parse(path): the options of the INI file.
Config_parse(content) == content.docs[1]

\* Config._get_options_as_dict()
Config_get_options_as_dict(ini) == ini

\* Config.update_spec_file(path): the parsed options, written out.
Config_update_spec_file(ini) == IniContent(ini)

IsFile(path) == path \in DOMAIN fs

\* ConfigFile.read_file: the list it returns when source_file is src.
read_file(src) ==
    IF ~IsFile(src) THEN << EmptyDict >>
    ELSE IF file_type # INI
         THEN (IF file_type = YAML
               THEN yaml_load_all(fs[src])
               ELSE << json_load(fs[src]) >>)
         ELSE << Config_get_options_as_dict(Config_parse(fs[src])) >>

\* ConfigFile.read_file assigns ini_config only when it parses an INI file.
ReadAssignsIni(src) == IsFile(src) /\ file_type = INI

\* ConfigFile.load_config with source_file = src.  all_configs is assigned
\* before all_configs[0] is looked up, so an empty stream leaves it assigned.
load_config(src) ==
    LET docs == read_file(src)
        got == {"all_configs"} \cup (IF ReadAssignsIni(src) THEN {"ini_config"} ELSE {})
    IN  /\ all_configs' = docs
        /\ ini_config' = IF ReadAssignsIni(src) THEN Config_parse(fs[src]) ELSE ini_config
        /\ IF Len(docs) = 0
           THEN /\ raised' = "IndexError"
                /\ config' = config
                /\ attrs' = attrs \cup got
           ELSE /\ raised' = "none"
                /\ config' = docs[1]
                /\ attrs' = attrs \cup got \cup {"config"}

\* ConfigFile.write on a loaded object: the exception it raises, or "none".
\* ini_config is looked up on the instance, which holds it only after
\* read_file has parsed an existing INI file.
WriteRaises ==
    IF file_type # INI THEN "none"
    ELSE (IF "ini_config" \in attrs THEN "none" ELSE "AttributeError")

\* write, had it dumped config where it dumps all_configs.
write_config_only ==
    IF file_type # INI
    THEN (IF file_type = YAML
          THEN Put(fs, dest_file, yaml_dump_all(<< config >>))
          ELSE Put(fs, dest_file, json_dump(config)))
    ELSE (IF "ini_config" \in attrs
          THEN Put(fs, dest_file, Config_update_spec_file(ini_config))
          ELSE fs)

\* ConfigFile.write on a loaded object: the file system after it.
write ==
    IF file_type # INI
    THEN (IF file_type = YAML
          THEN Put(fs, dest_file, yaml_dump_all(all_configs))
          ELSE Put(fs, dest_file, json_dump(config)))
    ELSE (IF "ini_config" \in attrs
          THEN Put(fs, dest_file, Config_update_spec_file(ini_config))
          ELSE fs)

-----------------------------------------------------------------------------
(* Documents.                                                              *)

\* f"{n}{unit}"
Fmt(n, unit) == << n, unit >>

\* The documents of the generic (INI, JSON, plain YAML) files.
GenericKeys == {"a", "b"}
GenericDocs == {EmptyDict, [a |-> 1]}

\* cloud/operator/templates/couchbase-cluster_template.yaml: the keys the
\* setters of CAOCouchbaseClusterFile look up.
ClusterTemplate ==
    [metadata |-> [name |-> "cb-example-perf"],
     spec |->
       [image |-> "couchbase/server:default",
        backup |-> [image |-> "couchbase/operator-backup:default", managed |-> TRUE],
        monitoring |->
          [prometheus |-> [enabled |-> TRUE, image |-> "couchbase/exporter:default",
                           refreshRate |-> 60]],
        cluster |-> [dataServiceMemoryQuota |-> Fmt(256, "Mi"),
                     indexServiceMemoryQuota |-> Fmt(256, "Mi"),
                     analyticsServiceMemoryQuota |-> Fmt(1024, "Mi")],
        networking |-> [exposeAdminConsole |-> TRUE],
        servers |-> << [name |-> << "default" >>,
                        services |-> << "data", "index", "query" >>,
                        size |-> 1] >>,
        volumeClaimTemplates |->
          << [metadata |-> [name |-> << "default" >>],
              spec |-> [resources |-> [requests |-> [storage |-> << "1000", "Gi" >>]]]] >>]]

\* cloud/operator/templates/bucket_template.yaml
BucketTemplate ==
    [metadata |-> [name |-> "bucket"],
     spec |-> [memoryQuota |-> Fmt(128, "Mi"),
               replicas |-> 0,
               evictionPolicy |-> "valueOnly",
               compressionMode |-> "passive",
               conflictResolution |-> "lww",
               ioPriority |-> "high"]]

\* A cluster template that says nothing of server groups, and a bucket
\* template that has only its metadata: documents in which a key that a
\* setter looks up is missing.
ClusterTemplateNoServers == Put(ClusterTemplate, "spec", Pop(ClusterTemplate.spec, "servers"))
BucketTemplateNoSpec == Pop(BucketTemplate, "spec")

-----------------------------------------------------------------------------
(* The setters, as functions from the document (and the values they read)  *)
(* to the document they leave and the exception they raise.  A lookup of a *)
(* missing key raises KeyError at the place of the lookup: what the setter *)
(* assigned before that place stays assigned.                              *)

Ok(doc) == [config |-> doc, raised |-> "none"]
Err(doc, e) == [config |-> doc, raised |-> e]

Range(s) == {s[i] : i \in DOMAIN s}

SetSpec(doc, k, v) == Put(doc, "spec", Put(doc.spec, k, v))

\* Python's comparison of tuples: a <= b.
RECURSIVE LexLeq(_, _)
LexLeq(a, b) ==
    IF a = << >> THEN TRUE
    ELSE IF b = << >> THEN FALSE
    ELSE IF Head(a) # Head(b) THEN Head(a) < Head(b)
    ELSE LexLeq(Tail(a), Tail(b))

\* A bound of supported_for that is not given (None).
NoBound == << >>

\* supported_for, had it compared since < version.
supported_for_strict(ver, since, upto) ==
    LET v == IF ver = << >> THEN << 0, 0, 0 >> ELSE ver
    IN  /\ (since = NoBound \/ (LexLeq(since, v) /\ since # v))
        /\ (upto = NoBound \/ LexLeq(v, upto))

\* supported_for: whether the decorated method is called.
supported_for(ver, since, upto) ==
    LET v == IF ver = << >> THEN << 0, 0, 0 >> ELSE ver
    IN  /\ (since = NoBound \/ LexLeq(since, v))
        /\ (upto = NoBound \/ LexLeq(v, upto))

set_server_spec(doc, server_tag, server_count) ==
    IF ~Has(doc, "spec") THEN Err(doc, "KeyError")
    ELSE LET d1 == SetSpec(doc, "image", server_tag)
         IN  IF ~Has(d1.spec, "servers") THEN Err(d1, "KeyError")
             ELSE IF Len(d1.spec.servers) = 0 THEN Err(d1, "IndexError")
             ELSE Ok(SetSpec(d1, "servers",
                     [d1.spec.servers EXCEPT ![1] = Put(@, "size", server_count)]))

\* set_backup, had it emptied the subsection where it removes it.
set_backup_emptied(doc, backup_tag) ==
    IF backup_tag # ""
    THEN (IF Has(doc, "spec") /\ Has(doc.spec, "backup")
          THEN Ok(SetSpec(doc, "backup", Put(doc.spec.backup, "image", backup_tag)))
          ELSE Err(doc, "KeyError"))
    ELSE (IF Has(doc, "spec") /\ Has(doc.spec, "backup")
          THEN Ok(SetSpec(doc, "backup", EmptyDict))
          ELSE Err(doc, "KeyError"))

\* set_backup, had it popped the subsection with a default (a second
\* disabling call does nothing).
set_backup_pop_default(doc, backup_tag) ==
    IF backup_tag # ""
    THEN (IF Has(doc, "spec") /\ Has(doc.spec, "backup")
          THEN Ok(SetSpec(doc, "backup", Put(doc.spec.backup, "image", backup_tag)))
          ELSE Err(doc, "KeyError"))
    ELSE (IF Has(doc, "spec") /\ Has(doc.spec, "backup")
          THEN Ok(Put(doc, "spec", Pop(doc.spec, "backup")))
          ELSE Ok(doc))

set_backup(doc, backup_tag) ==
    IF backup_tag # ""
    THEN (IF Has(doc, "spec") /\ Has(doc.spec, "backup")
          THEN Ok(SetSpec(doc, "backup", Put(doc.spec.backup, "image", backup_tag)))
          ELSE Err(doc, "KeyError"))
    ELSE (IF Has(doc, "spec") /\ Has(doc.spec, "backup")
          THEN Ok(Put(doc, "spec", Pop(doc.spec, "backup")))
          ELSE Err(doc, "KeyError"))

set_exporter(doc, exporter_tag, refresh_rate) ==
    IF exporter_tag # ""
    THEN (IF /\ Has(doc, "spec")
             /\ Has(doc.spec, "monitoring")
             /\ Has(doc.spec.monitoring, "prometheus")
          THEN Ok(SetSpec(doc, "monitoring",
                  Put(doc.spec.monitoring, "prometheus",
                      Update(doc.spec.monitoring.prometheus,
                             [image |-> exporter_tag, refreshRate |-> refresh_rate]))))
          ELSE Err(doc, "KeyError"))
    ELSE (IF Has(doc, "spec") /\ Has(doc.spec, "monitoring")
          THEN Ok(Put(doc, "spec", Pop(doc.spec, "monitoring")))
          ELSE Err(doc, "KeyError"))

\* set_memory_quota, had it set the search quota whatever its value.
set_memory_quota_unguarded(doc, tc) ==
    IF ~(Has(doc, "spec") /\ Has(doc.spec, "cluster")) THEN Err(doc, "KeyError")
    ELSE LET c0 == Update(doc.spec.cluster,
                          [dataServiceMemoryQuota |-> Fmt(tc.mem_quota, "Mi"),
                           indexServiceMemoryQuota |-> Fmt(tc.index_mem_quota, "Mi")])
             c1 == Put(c0, "searchServiceMemoryQuota", Fmt(tc.fts_index_mem_quota, "Mi"))
             c2 == IF tc.analytics_mem_quota # 0
                   THEN Put(c1, "analyticsServiceMemoryQuota", Fmt(tc.analytics_mem_quota, "Mi"))
                   ELSE c1
             c3 == IF tc.eventing_mem_quota # 0
                   THEN Put(c2, "eventingServiceMemoryQuota", Fmt(tc.eventing_mem_quota, "Mi"))
                   ELSE c2
         IN  Ok(SetSpec(doc, "cluster", c3))

set_memory_quota(doc, tc) ==
    IF ~(Has(doc, "spec") /\ Has(doc.spec, "cluster")) THEN Err(doc, "KeyError")
    ELSE LET c0 == Update(doc.spec.cluster,
                          [dataServiceMemoryQuota |-> Fmt(tc.mem_quota, "Mi"),
                           indexServiceMemoryQuota |-> Fmt(tc.index_mem_quota, "Mi")])
             c1 == IF tc.fts_index_mem_quota # 0
                   THEN Put(c0, "searchServiceMemoryQuota", Fmt(tc.fts_index_mem_quota, "Mi"))
                   ELSE c0
             c2 == IF tc.analytics_mem_quota # 0
                   THEN Put(c1, "analyticsServiceMemoryQuota", Fmt(tc.analytics_mem_quota, "Mi"))
                   ELSE c1
             c3 == IF tc.eventing_mem_quota # 0
                   THEN Put(c2, "eventingServiceMemoryQuota", Fmt(tc.eventing_mem_quota, "Mi"))
                   ELSE c2
         IN  Ok(SetSpec(doc, "cluster", c3))

\* role.replace("kv", "data").replace("n1ql", "query")
CaoRole(role) == Replace(Replace(role, "kv", << "data" >>), "n1ql", << "query" >>)

\* The keys of server_types, in the order of their first insertion.
RECURSIVE ServerTypes(_)
ServerTypes(roles) ==
    IF roles = << >> THEN << >>
    ELSE LET before == ServerTypes(SubSeq(roles, 1, Len(roles) - 1))
             role == CaoRole(roles[Len(roles)])
         IN  IF role \in Range(before) THEN before ELSE Append(before, role)

\* server_types[role]: the nodes with that role.
ServerTypeCount(roles, role) ==
    Cardinality({i \in DOMAIN roles : CaoRole(roles[i]) = role})

\* server_role.split(","): every service is one token.
Split(server_role) == SelectSeq(server_role, LAMBDA t : t # ",")

NodeSelectorKey(service) ==
    Replace(Replace(<< service >>, "data", << "kv" >>), "query", << "n1ql" >>)
        \o << "_enabled" >>

NodeSelector(server_role) ==
    LET keys == {NodeSelectorKey(sv) : sv \in Range(Split(server_role))}
    IN  [k \in keys \cup {<< "NodeRoles" >>} |->
            IF k = << "NodeRoles" >> THEN "couchbase1" ELSE "true"]

DefaultVolumeSize == << "1000", "GB" >>

\* VolumeSize, had it replaced "GB" only.
VolumeSize_gb_only(sg_def) ==
    LET volume_size == IF Has(sg_def, "volume_size") THEN sg_def.volume_size
                       ELSE DefaultVolumeSize
    IN  Replace(volume_size, "GB", << "Gi" >>)

\* volume_size.replace("GB", "Gi").replace("MB", "Mi")
VolumeSize(sg_def) ==
    LET volume_size == IF Has(sg_def, "volume_size") THEN sg_def.volume_size
                       ELSE DefaultVolumeSize
    IN  Replace(Replace(volume_size, "GB", << "Gi" >>), "MB", << "Mi" >>)

ServerDef(server_role, server_role_count, tc) ==
    LET sg_name == Replace(server_role, ",", << "-" >>)
        sg_def == tc.sg_def
        sg_nodes == IF Has(sg_def, "nodes") THEN sg_def.nodes ELSE server_role_count
    IN  [name |-> sg_name,
         services |-> Split(server_role),
         pod |-> [spec |-> [imagePullSecrets |-> << [name |-> "regcred"] >>,
                            nodeSelector |-> NodeSelector(server_role)],
                  metadata |-> [annotations |->
                                  [k \in {"sidecar.istio.io/inject"} |->
                                      IF tc.istio_enabled THEN "true" ELSE "false"]]],
         size |-> sg_nodes,
         volumeMounts |-> [default |-> sg_name]]

VolumeClaimDef(server_role, tc) ==
    [metadata |-> [name |-> Replace(server_role, ",", << "-" >>)],
     spec |-> [resources |-> [requests |-> [storage |-> VolumeSize(tc.sg_def)]]]]

set_services(doc, tc) ==
    LET types == ServerTypes(tc.roles)
        cluster_servers ==
            [i \in DOMAIN types |->
                ServerDef(types[i], ServerTypeCount(tc.roles, types[i]), tc)]
        volume_claims == [i \in DOMAIN types |-> VolumeClaimDef(types[i], tc)]
    IN  IF ~Has(doc, "spec") THEN Err(doc, "KeyError")
        ELSE Ok(SetSpec(SetSpec(doc, "servers", cluster_servers),
                        "volumeClaimTemplates", volume_claims))

set_cpu_settings(doc, tc) ==
    IF ~(Has(doc, "spec") /\ Has(doc.spec, "servers")) THEN Err(doc, "KeyError")
    ELSE LET online_vcpus == tc.online_cores * 2
         IN  Ok(SetSpec(doc, "servers",
                 [i \in DOMAIN doc.spec.servers |->
                     Put(doc.spec.servers[i], "resources",
                         [limits |-> [cpu |-> online_vcpus]])]))

\* CAO uses different service names than perfrunner.
TuneService(service) ==
    CASE service = "kv" -> "data"
      [] service = "n1ql" -> "query"
      [] service = "fts" -> "search"
      [] service = "cbas" -> "analytics"
      [] OTHER -> service

\* set_memory_settings, had it given the limit to every server group.
set_memory_settings_all_groups(doc, tc) ==
    IF tc.kernel_mem_limit = 0 THEN Ok(doc)
    ELSE IF ~(Has(doc, "spec") /\ Has(doc.spec, "servers")) THEN Err(doc, "KeyError")
    ELSE Ok(SetSpec(doc, "servers",
             [i \in DOMAIN doc.spec.servers |->
                 Put(doc.spec.servers[i], "resources",
                     [limits |-> [memory |-> Fmt(tc.kernel_mem_limit, "Mi")]])]))

set_memory_settings(doc, tc) ==
    IF tc.kernel_mem_limit = 0 THEN Ok(doc)
    ELSE IF ~(Has(doc, "spec") /\ Has(doc.spec, "servers")) THEN Err(doc, "KeyError")
    ELSE LET tune_services == {TuneService(sv) : sv \in Range(tc.kernel_mem_limit_services)}
             kernel_memory == tc.kernel_mem_limit
         IN  Ok(SetSpec(doc, "servers",
                 [i \in DOMAIN doc.spec.servers |->
                     IF /\ Range(doc.spec.servers[i].services) \cap tune_services # {}
                        /\ kernel_memory # 0
                     THEN Put(doc.spec.servers[i], "resources",
                              [limits |-> [memory |-> Fmt(kernel_memory, "Mi")]])
                     ELSE doc.spec.servers[i]]))

\* server_group["name"] == server_group: inside the loop server_group is the
\* dict of the group (the parameter is spelt sever_group and is never read),
\* so a str is compared with the dict that holds it, which is False.
NameEqualsGroup(name, server_group) == FALSE

\* configure_autoscaling, had it compared the name with the parameter.
configure_autoscaling_by_name(doc, sever_group) ==
    IF ~(Has(doc, "spec") /\ Has(doc.spec, "servers")) THEN Err(doc, "KeyError")
    ELSE IF \E i \in DOMAIN doc.spec.servers : ~Has(doc.spec.servers[i], "name")
         THEN Err(doc, "KeyError")
    ELSE Ok(SetSpec(doc, "servers",
             [i \in DOMAIN doc.spec.servers |->
                 IF doc.spec.servers[i].name = sever_group
                 THEN Put(doc.spec.servers[i], "autoscaleEnabled", TRUE)
                 ELSE doc.spec.servers[i]]))

\* No group before one that has no name is changed, so the document that a
\* failed lookup of "name" leaves is the document as it was.
configure_autoscaling(doc, sever_group) ==
    IF ~(Has(doc, "spec") /\ Has(doc.spec, "servers")) THEN Err(doc, "KeyError")
    ELSE IF \E i \in DOMAIN doc.spec.servers : ~Has(doc.spec.servers[i], "name")
         THEN Err(doc, "KeyError")
    ELSE Ok(SetSpec(doc, "servers",
             [i \in DOMAIN doc.spec.servers |->
                 IF NameEqualsGroup(doc.spec.servers[i].name, doc.spec.servers[i])
                 THEN Put(doc.spec.servers[i], "autoscaleEnabled", TRUE)
                 ELSE doc.spec.servers[i]]))

\* @supported_for(since=(2, 6, 0), feature="CNG")
CngSince == << 2, 6, 0 >>

\* The method set_cng_version as written, without its decorator.
set_cng_version_method(doc, cng_tag) ==
    IF ~(Has(doc, "spec") /\ Has(doc.spec, "networking")) THEN Err(doc, "KeyError")
    ELSE Ok(SetSpec(doc, "networking",
            Update(doc.spec.networking, [cloudNativeGateway |-> [image |-> cng_tag]])))

set_cng_version(doc, ver, cng_tag) ==
    IF supported_for(ver, CngSince, NoBound)
    THEN set_cng_version_method(doc, cng_tag)
    ELSE Ok(doc)

\* set_bucket_settings, had it passed the two settings on as they are.
set_bucket_settings_no_default(doc, bucket_name, bucket_quota, bucket_settings) ==
    IF ~Has(doc, "metadata") THEN Err(doc, "KeyError")
    ELSE LET d1 == Put(doc, "metadata", Put(doc.metadata, "name", bucket_name))
         IN  IF ~Has(d1, "spec") THEN Err(d1, "KeyError")
             ELSE Ok(Put(d1, "spec", Update(d1.spec,
                     [memoryQuota |-> Fmt(bucket_quota, "Mi"),
                      replicas |-> bucket_settings.replica_number,
                      evictionPolicy |-> bucket_settings.eviction_policy,
                      compressionMode |-> bucket_settings.compression_mode,
                      conflictResolution |-> bucket_settings.conflict_resolution_type])))

set_bucket_settings(doc, bucket_name, bucket_quota, bucket_settings) ==
    IF ~Has(doc, "metadata") THEN Err(doc, "KeyError")
    ELSE LET d1 == Put(doc, "metadata", Put(doc.metadata, "name", bucket_name))
         IN  IF ~Has(d1, "spec") THEN Err(d1, "KeyError")
             ELSE Ok(Put(d1, "spec", Update(d1.spec,
                     [memoryQuota |-> Fmt(bucket_quota, "Mi"),
                      replicas |-> bucket_settings.replica_number,
                      evictionPolicy |-> bucket_settings.eviction_policy,
                      compressionMode |->
                          IF bucket_settings.compression_mode # ""
                          THEN bucket_settings.compression_mode ELSE "off",
                      conflictResolution |->
                          IF bucket_settings.conflict_resolution_type # ""
                          THEN bucket_settings.conflict_resolution_type ELSE "seqno"])))

-----------------------------------------------------------------------------
(* The inputs: versions, test configurations, template files.              *)

Versions == {<< >>, << 1, 9, 9 >>, << 2, 5, 9 >>, << 2, 6, 0 >>, << 2, 6, 1 >>, << 3, 0, 0 >>}

RoleStrings == {<< "kv" >>, << "index", ",", "n1ql" >>, << "n1ql", ",", "index" >>}

RoleLists == UNION {[1..n -> RoleStrings] : n \in 1..MaxNodes}

SgDefs == {EmptyDict,
           [volume_size |-> << "500", "GB" >>],
           [volume_size |-> << "256", "MB" >>, nodes |-> 3]}

BaseConfig ==
    [mem_quota |-> 4096, index_mem_quota |-> 512,
     fts_index_mem_quota |-> 0, analytics_mem_quota |-> 0, eventing_mem_quota |-> 0,
     online_cores |-> 4,
     kernel_mem_limit |-> 0, kernel_mem_limit_services |-> << "kv" >>,
     roles |-> << << "kv" >> >>, istio_enabled |-> FALSE, sg_def |-> EmptyDict]

QuotaConfigs ==
    {[BaseConfig EXCEPT !.fts_index_mem_quota = f, !.analytics_mem_quota = a,
                        !.eventing_mem_quota = e] :
        f \in {0, 512}, a \in {0, 2048}, e \in {0, 256}}

ServiceConfigs ==
    {[BaseConfig EXCEPT !.roles = r, !.istio_enabled = (Len(r) > 1)] : r \in RoleLists}
    \cup
    {[BaseConfig EXCEPT !.roles = r, !.sg_def = d] :
        r \in {<< << "kv" >> >>, << << "kv" >>, << "index", ",", "n1ql" >> >>},
        d \in SgDefs}

TuneConfigs ==
    {[BaseConfig EXCEPT !.roles = << << "kv" >>, << "index", ",", "n1ql" >> >>,
                        !.kernel_mem_limit = m, !.kernel_mem_limit_services = t] :
        m \in {0, 2048}, t \in {<< "kv" >>, << "n1ql", "fts" >>, << "cbas" >>}}

TestConfigs == QuotaConfigs \cup ServiceConfigs \cup TuneConfigs

ServerTags == {"couchbase/server:7.6.0"}
ServerCounts == {3}
BackupTags == {"", "couchbase/operator-backup:1.3.5"}
ExporterTags == {"", "couchbase/exporter:1.0.9"}
RefreshRates == {30}
CngTags == {"couchbase/cloud-native-gateway:1.0.0"}
\* The names configure_autoscaling is called with: the group of the template
\* and the group set_services makes of the role kv.
GroupNames == {<< "default" >>, << "data" >>}

BucketQuotas == {256, 1024}
BucketSettings ==
    [replica_number : {1, 2},
     eviction_policy : {"fullEviction"},
     compression_mode : {"", "active"},
     conflict_resolution_type : {"", "lww"}]

\* What the source path may hold when the object is constructed.
SourceContents(k) ==
    CASE k = "ini" -> {IniContent(d) : d \in GenericDocs}
      [] k = "json" -> {JsonContent(d) : d \in GenericDocs}
      [] k = "yaml" -> {YamlContent(ds) :
                           ds \in UNION {[1..n -> GenericDocs] : n \in 0..MaxDocs}}
      [] k = "cluster" -> {YamlContent(<< ClusterTemplate >>)}
      [] k = "bucket" -> {YamlContent(<< BucketTemplate >>)}

\* What the template path may hold instead, when the template does not
\* have the layout the setters assume.
MalformedContents(k) ==
    CASE k = "cluster" -> {YamlContent(<< ClusterTemplateNoServers >>)}
      [] k = "bucket" -> {YamlContent(<< BucketTemplateNoSpec >>)}
      [] OTHER -> {}

NoArgs == EmptyDict

Call(op, args) ==
    [op |-> op, args |-> args, before |-> config, before_all |-> all_configs]

-----------------------------------------------------------------------------
(* The file object: construction, the with-block, the calls.               *)

Init ==
    /\ kind \in Kinds
    /\ file_type = InitFileType(kind)
    /\ source_file = FilePath(kind)
    /\ dest_file = DestPath(kind)
    /\ attrs = {}
    /\ all_configs = << >>
    /\ config = EmptyDict
    /\ ini_config = EmptyDict
    /\ \/ /\ kind = "cluster"
          /\ \/ version = << 2, 6, 0 >> /\ test_config \in TestConfigs
             \/ version \in Versions /\ test_config = BaseConfig
       \/ /\ kind # "cluster"
          /\ version = << >>
          /\ test_config = BaseConfig
    /\ \/ fs = EmptyDict /\ test_config = BaseConfig /\ version \in {<< >>, << 2, 6, 0 >>}
       \/ \E c \in SourceContents(kind) : fs = [p \in {FilePath(kind)} |-> c]
       \/ /\ test_config = BaseConfig
          /\ version \in {<< >>, << 2, 6, 0 >>}
          /\ \E c \in MalformedContents(kind) : fs = [p \in {FilePath(kind)} |-> c]
    /\ pc = "idle"
    /\ raised = "none"
    /\ last = [op |-> "__init__", args |-> NoArgs, before |-> EmptyDict,
               before_all |-> << >>]
    /\ calls = 0
    /\ connstr = << >>

\* with file: ... (ConfigFile.__enter__).  When load_config raises, the block
\* is not entered and __exit__ is not called.
Enter ==
    /\ pc = "idle"
    /\ load_config(source_file)
    /\ pc' = IF Len(read_file(source_file)) = 0 THEN "idle" ELSE "body"
    /\ last' = Call("__enter__", [found |-> IsFile(source_file)])
    /\ UNCHANGED << kind, file_type, source_file, dest_file, version, test_config,
                    fs, calls, connstr >>

\* Leaving the with-block (ConfigFile.__exit__): exc is the exception the body
\* raised, or "none".  __exit__ returns None, so exc propagates unless write
\* itself raises.  failed_op and failed_before record the call of the body that
\* raised, if one did, and the document that call found.
Exit(exc) ==
    /\ pc = "body"
    /\ IF raised = "none" THEN exc \in {"none", "Error"} ELSE exc = raised
    /\ fs' = write
    /\ raised' = IF WriteRaises # "none" THEN WriteRaises ELSE exc
    /\ pc' = "idle"
    /\ last' = Call("__exit__",
                    [exc |-> exc,
                     new_file |-> (last.op = "__enter__" /\ ~last.args.found),
                     failed_op |-> IF raised = "none" THEN "none" ELSE last.op,
                     failed_before |-> IF raised = "none" THEN EmptyDict
                                       ELSE last.before])
    /\ UNCHANGED << kind, file_type, source_file, dest_file, attrs, all_configs,
                    config, ini_config, version, test_config, calls, connstr >>

reload_from_dest ==
    /\ "all_configs" \in attrs
    /\ pc = "idle" \/ raised = "none"
    /\ source_file' = dest_file
    /\ load_config(dest_file)
    /\ last' = Call("reload_from_dest", [after_write |-> last.op = "__exit__"])
    /\ UNCHANGED << kind, file_type, dest_file, version, test_config, fs, pc,
                    calls, connstr >>

\* A call in the body of the with-block that leaves the document r.config and
\* raises r.raised.  config is all_configs[0]: the one object changes.
Setter(op, args, r) ==
    /\ pc = "body"
    /\ raised = "none"
    /\ calls < MaxCalls
    /\ config' = r.config
    /\ all_configs' = [all_configs EXCEPT ![1] = r.config]
    /\ raised' = r.raised
    /\ last' = Call(op, args)
    /\ calls' = calls + 1
    /\ UNCHANGED << kind, file_type, source_file, dest_file, attrs, ini_config,
                    version, test_config, fs, pc, connstr >>

\* The caller stores a value into the document of a JSON or plain YAML file.
update_config ==
    /\ kind \in {"json", "yaml"}
    /\ \E k \in GenericKeys, v \in 1..MaxVal :
          Setter("update_config", [key |-> k, value |-> v], Ok(Put(config, k, v)))

Call_set_server_spec ==
    /\ kind = "cluster"
    /\ \E server_tag \in ServerTags, server_count \in ServerCounts :
          Setter("set_server_spec",
                 [server_tag |-> server_tag, server_count |-> server_count],
                 set_server_spec(config, server_tag, server_count))

Call_set_backup ==
    /\ kind = "cluster"
    /\ \E backup_tag \in BackupTags :
          Setter("set_backup", [backup_tag |-> backup_tag],
                 set_backup(config, backup_tag))

Call_set_exporter ==
    /\ kind = "cluster"
    /\ \E exporter_tag \in ExporterTags, refresh_rate \in RefreshRates :
          Setter("set_exporter",
                 [exporter_tag |-> exporter_tag, refresh_rate |-> refresh_rate],
                 set_exporter(config, exporter_tag, refresh_rate))

Call_set_memory_quota ==
    /\ kind = "cluster"
    /\ Setter("set_memory_quota", NoArgs, set_memory_quota(config, test_config))

Call_set_services ==
    /\ kind = "cluster"
    /\ Setter("set_services", NoArgs, set_services(config, test_config))

Call_set_cpu_settings ==
    /\ kind = "cluster"
    /\ Setter("set_cpu_settings", NoArgs, set_cpu_settings(config, test_config))

Call_set_memory_settings ==
    /\ kind = "cluster"
    /\ Setter("set_memory_settings", NoArgs, set_memory_settings(config, test_config))

Call_configure_autoscaling ==
    /\ kind = "cluster"
    /\ \E sever_group \in GroupNames :
          Setter("configure_autoscaling", [sever_group |-> sever_group],
                 configure_autoscaling(config, sever_group))

Call_set_cng_version ==
    /\ kind = "cluster"
    /\ \E cng_tag \in CngTags :
          Setter("set_cng_version", [cng_tag |-> cng_tag],
                 set_cng_version(config, version, cng_tag))

Call_set_bucket_settings ==
    /\ kind = "bucket"
    /\ \E bucket_quota \in BucketQuotas, bucket_settings \in BucketSettings :
          Setter("set_bucket_settings",
                 [bucket_quota |-> bucket_quota, bucket_settings |-> bucket_settings],
                 set_bucket_settings(config, BucketName, bucket_quota, bucket_settings))

Next ==
    \/ Enter
    \/ \E exc \in {"none", "Error", "KeyError", "IndexError"} : Exit(exc)
    \/ reload_from_dest
    \/ update_config
    \/ Call_set_server_spec
    \/ Call_set_backup
    \/ Call_set_exporter
    \/ Call_set_memory_quota
    \/ Call_set_services
    \/ Call_set_cpu_settings
    \/ Call_set_memory_settings
    \/ Call_configure_autoscaling
    \/ Call_set_cng_version
    \/ Call_set_bucket_settings

Spec == Init /\ [][Next]_vars

-----------------------------------------------------------------------------
(* The with-block, the missing source file, the round trip.                *)

\* C1: after every exit from a with-block, by normal completion or by an
\* error raised in the body, the destination file exists and holds the
\* documents the object held at the exit.
C1_WriteOnEveryExit ==
    last.op = "__exit__" =>
        /\ IsFile(dest_file)
        /\ read_file(dest_file) = all_configs

\* What holds of the exit (C1) outside the INI object that was loaded from a
\* missing file: the destination holds the documents, and the error of the
\* body, if any, is the one that propagates.
ExitWritesUnlessIniUnparsed ==
    (last.op = "__exit__" /\ ~(file_type = INI /\ "ini_config" \notin attrs)) =>
        /\ IsFile(dest_file)
        /\ read_file(dest_file) = all_configs
        /\ raised = last.args.exc

\* C2: for YAML, JSON and INI alike, load_config on a source path that does
\* not exist raises nothing and yields exactly one empty document, and the
\* write that follows raises nothing and creates the destination file.
C2_MissingSourceCreateOnWrite ==
    /\ (last.op = "__enter__" /\ ~last.args.found) =>
          raised = "none" /\ all_configs = << EmptyDict >>
    /\ (last.op = "__exit__" /\ last.args.new_file /\ last.args.exc = "none") =>
          raised = "none" /\ IsFile(dest_file)

-----------------------------------------------------------------------------
(* The setters of the cluster and bucket files.                            *)

\* A three-part version as one number; an absent version is (0, 0, 0).
VersionNum(v) == IF v = << >> THEN 0 ELSE v[1] * 10000 + v[2] * 100 + v[3]

\* C4: set_cng_version (since (2, 6, 0)) leaves the document as it was and
\* raises nothing when the instance version is below (2, 6, 0) or absent; at
\* (2, 6, 0) and above it does what the undecorated method does, which with a
\* networking section present is to set cloudNativeGateway.image to the tag
\* and nothing else; with an upto bound the method is applied exactly when
\* the version is in addition not above upto.
C4_VersionGate ==
    last.op = "set_cng_version" =>
        LET v == VersionNum(version)
            tag == last.args.cng_tag
            before == last.before
        IN  /\ v < 20600 => (config = before /\ raised = "none")
            /\ v >= 20600 =>
                  /\ [config |-> config, raised |-> raised]
                        = set_cng_version_method(before, tag)
                  /\ (Has(before, "spec") /\ Has(before.spec, "networking")) =>
                        /\ raised = "none"
                        /\ config.spec.networking.cloudNativeGateway = [image |-> tag]
                        /\ Pop(config.spec.networking, "cloudNativeGateway")
                              = Pop(before.spec.networking, "cloudNativeGateway")
                        /\ Pop(config.spec, "networking") = Pop(before.spec, "networking")
            /\ \A upto \in Versions \ {<< >>} :
                  supported_for(version, CngSince, upto)
                      <=> (v >= 20600 /\ v <= VersionNum(upto))

\* C4's case: the setter called on a cluster file of version (2, 5, 9), the
\* document left without a cloudNativeGateway.
C4_Witness ==
    /\ last.op = "set_cng_version"
    /\ version = << 2, 5, 9 >>
    /\ raised = "none"
    /\ Has(config, "spec")
    /\ ~Has(config.spec.networking, "cloudNativeGateway")

\* C5: after set_backup with an empty tag the document's spec has no backup
\* key, and after set_exporter with an empty tag it has no monitoring key;
\* after a call with a tag that returned, the subsection is there, its other
\* keys as before, and its image is the tag.
C5_DisableRemovesSection ==
    /\ last.op = "set_backup" =>
          IF last.args.backup_tag = ""
          THEN ~(Has(config, "spec") /\ Has(config.spec, "backup"))
          ELSE raised = "none" =>
                  /\ Has(config.spec, "backup")
                  /\ config.spec.backup.image = last.args.backup_tag
                  /\ Pop(config.spec.backup, "image")
                        = Pop(last.before.spec.backup, "image")
    /\ last.op = "set_exporter" =>
          IF last.args.exporter_tag = ""
          THEN ~(Has(config, "spec") /\ Has(config.spec, "monitoring"))
          ELSE raised = "none" =>
                  /\ Has(config.spec, "monitoring")
                  /\ config.spec.monitoring.prometheus.image = last.args.exporter_tag
                  /\ Pop(config.spec.monitoring.prometheus, "image")
                        = Pop(Put(last.before.spec.monitoring.prometheus, "refreshRate",
                                  last.args.refresh_rate), "image")

\* C5's case: set_backup("") on a document that had the backup subsection.
C5_Witness ==
    /\ last.op = "set_backup"
    /\ last.args.backup_tag = ""
    /\ raised = "none"
    /\ Has(last.before.spec, "backup")
    /\ Has(config, "spec")
    /\ Has(config.spec, "monitoring")

\* The optional quotas of set_memory_quota: the key and the configured value.
OptionalQuotas(tc) ==
    {<< "searchServiceMemoryQuota", tc.fts_index_mem_quota >>,
     << "analyticsServiceMemoryQuota", tc.analytics_mem_quota >>,
     << "eventingServiceMemoryQuota", tc.eventing_mem_quota >>}

\* C6: after set_memory_quota the data and index quotas are the configured
\* ones; the search, analytics and eventing quota is the configured one if
\* that is not zero, and otherwise the key is absent or present as before,
\* with the value it had.
C6_OptionalQuotas ==
    (last.op = "set_memory_quota" /\ raised = "none") =>
        LET cluster == config.spec.cluster
            was == last.before.spec.cluster
        IN  /\ cluster.dataServiceMemoryQuota = << test_config.mem_quota, "Mi" >>
            /\ cluster.indexServiceMemoryQuota = << test_config.index_mem_quota, "Mi" >>
            /\ \A q \in OptionalQuotas(test_config) :
                  IF q[2] # 0
                  THEN Has(cluster, q[1]) /\ cluster[q[1]] = << q[2], "Mi" >>
                  ELSE /\ Has(cluster, q[1]) <=> Has(was, q[1])
                       /\ Has(cluster, q[1]) => cluster[q[1]] = was[q[1]]

\* C6's case: a search quota configured, analytics and eventing quotas zero:
\* the analytics quota of the template stays, no eventing quota appears.
C6_Witness ==
    /\ last.op = "set_memory_quota"
    /\ raised = "none"
    /\ test_config.fts_index_mem_quota # 0
    /\ test_config.analytics_mem_quota = 0
    /\ test_config.eventing_mem_quota = 0
    /\ Has(config.spec.cluster, "searchServiceMemoryQuota")
    /\ Has(config.spec.cluster, "analyticsServiceMemoryQuota")
    /\ ~Has(config.spec.cluster, "eventingServiceMemoryQuota")

\* C7: a setter leaves the fields it does not target as they are; of this,
\* the case the claim names: a cpu limit that a server group holds before
\* set_memory_settings is still its cpu limit after it.
C7_SetterFrame ==
    (/\ last.op = "set_memory_settings"
     /\ raised = "none"
     /\ Has(last.before, "spec")
     /\ Has(last.before.spec, "servers")) =>
        \A i \in DOMAIN last.before.spec.servers :
            LET was == last.before.spec.servers[i]
                now == config.spec.servers[i]
            IN  (Has(was, "resources") /\ Has(was.resources.limits, "cpu")) =>
                    /\ Has(now, "resources")
                    /\ Has(now.resources.limits, "cpu")
                    /\ now.resources.limits.cpu = was.resources.limits.cpu

\* C8: after set_bucket_settings the name is the bucket name, memoryQuota is
\* the quota in Mi, replicas and evictionPolicy are the configured values,
\* compressionMode is the configured one, or "off" when that is empty, and
\* conflictResolution the configured one, or "seqno" when that is empty.
C8_BucketSettings ==
    (last.op = "set_bucket_settings" /\ raised = "none") =>
        LET bs == last.args.bucket_settings
        IN  /\ config.metadata.name = BucketName
            /\ config.spec.memoryQuota = << last.args.bucket_quota, "Mi" >>
            /\ config.spec.replicas = bs.replica_number
            /\ config.spec.evictionPolicy = bs.eviction_policy
            /\ bs.compression_mode = "" => config.spec.compressionMode = "off"
            /\ bs.compression_mode # "" =>
                  config.spec.compressionMode = bs.compression_mode
            /\ bs.conflict_resolution_type = "" =>
                  config.spec.conflictResolution = "seqno"
            /\ bs.conflict_resolution_type # "" =>
                  config.spec.conflictResolution = bs.conflict_resolution_type

\* C8's case: quota 256, one replica, no compression mode and no conflict
\* resolution given.
C8_Witness ==
    /\ last.op = "set_bucket_settings"
    /\ raised = "none"
    /\ last.args.bucket_quota = 256
    /\ last.args.bucket_settings.replica_number = 1
    /\ last.args.bucket_settings.compression_mode = ""
    /\ last.args.bucket_settings.conflict_resolution_type = ""
    /\ config.spec.compressionMode = "off"
    /\ config.spec.conflictResolution = "seqno"

\* After set_services: every volume claim requests the configured volume
\* size of its group ("1000GB" when none is configured) with the unit GB
\* written Gi and MB written Mi and the number as it was; spec.servers and
\* spec.volumeClaimTemplates are as long as each other, entry by entry of the
\* same name, and no name occurs twice.
VolumeClaimsMatchServers ==
    LET servers == config.spec.servers
        claims == config.spec.volumeClaimTemplates
        size == IF Has(test_config.sg_def, "volume_size")
                THEN test_config.sg_def.volume_size ELSE << "1000", "GB" >>
    IN  /\ Len(claims) = Len(servers)
        /\ \A i \in DOMAIN servers :
              /\ servers[i].name = claims[i].metadata.name
              /\ servers[i].volumeMounts.default = claims[i].metadata.name
              /\ \A j \in DOMAIN servers : servers[j].name = servers[i].name => j = i
        /\ \A i \in DOMAIN claims :
              LET storage == claims[i].spec.resources.requests.storage
              IN  /\ Len(storage) = 2
                  /\ storage[1] = size[1]
                  /\ size[2] = "GB" => storage[2] = "Gi"
                  /\ size[2] = "MB" => storage[2] = "Mi"

\* The roles a role string names, as a set.
RoleSet(role) == {role[i] : i \in {k \in DOMAIN role : role[k] # ","}}

\* C9 as claimed: after set_services the storage requests are the configured
\* volume sizes with GB written Gi and MB written Mi, and spec.servers and
\* spec.volumeClaimTemplates have one entry per distinct set of roles, with
\* the same names in the same order.
C9_OneGroupPerRoleSet ==
    (last.op = "set_services" /\ raised = "none") =>
        /\ VolumeClaimsMatchServers
        /\ Len(config.spec.servers)
              = Cardinality({RoleSet(r) : r \in Range(test_config.roles)})

\* C9 as amended: the same, with one entry per distinct role string of the
\* cluster spec (kv renamed data and n1ql renamed query): two strings that
\* name the same roles in a different order make two entries.
C9_VolumeSizeAndGroups ==
    (last.op = "set_services" /\ raised = "none") =>
        /\ VolumeClaimsMatchServers
        /\ Len(config.spec.servers)
              = Cardinality({CaoRole(r) : r \in Range(test_config.roles)})
        /\ \A r \in Range(test_config.roles) :
              \E i \in DOMAIN config.spec.servers :
                  config.spec.servers[i].services = Split(CaoRole(r))

\* C9's case: two server groups and a configured volume size of 256MB.
C9_Witness ==
    /\ last.op = "set_services"
    /\ raised = "none"
    /\ Len(config.spec.servers) = 2
    /\ Has(test_config.sg_def, "volume_size")
    /\ test_config.sg_def.volume_size = << "256", "MB" >>
    /\ config.spec.volumeClaimTemplates[2].spec.resources.requests.storage
          = << "256", "Mi" >>

-----------------------------------------------------------------------------
(* The resource limits of the server groups.                               *)

\* The tuning set of a test configuration, in the operator's service names.
TunedServices(tc) ==
    {sv \in {"data", "query", "search", "analytics", "index", "eventing"} :
        \/ sv = "data" /\ "kv" \in Range(tc.kernel_mem_limit_services)
        \/ sv = "query" /\ "n1ql" \in Range(tc.kernel_mem_limit_services)
        \/ sv = "search" /\ "fts" \in Range(tc.kernel_mem_limit_services)
        \/ sv = "analytics" /\ "cbas" \in Range(tc.kernel_mem_limit_services)
        \/ sv \in {"index", "eventing"} /\ sv \in Range(tc.kernel_mem_limit_services)}

\* A server group the tuning applies to: the limit is set and one of the
\* services of the group is in the tuning set.
Tuned(server_group, tc) ==
    /\ tc.kernel_mem_limit # 0
    /\ Range(server_group.services) \cap TunedServices(tc) # {}

\* The call made last was op, it returned, and the document had server groups.
ReturnedOnServers(op) ==
    /\ last.op = op
    /\ raised = "none"
    /\ Has(last.before, "spec")
    /\ Has(last.before.spec, "servers")

\* C11 as claimed: set_cpu_settings and set_memory_settings give a limit only
\* to the server groups that have a service in the tuning set
\* (kernel_mem_limit_services with kv read as data, n1ql as query, fts as
\* search, cbas as analytics): a group with no service in it, and every group
\* when kernel_mem_limit is zero, has after the call no resources entry that
\* it did not have before.
C11_LimitsOnlyOnTunedGroups ==
    (ReturnedOnServers("set_cpu_settings") \/ ReturnedOnServers("set_memory_settings")) =>
        /\ Len(config.spec.servers) = Len(last.before.spec.servers)
        /\ \A i \in DOMAIN last.before.spec.servers :
              LET was == last.before.spec.servers[i]
                  now == config.spec.servers[i]
              IN  ~Tuned(was, test_config) =>
                      (Has(now, "resources") =>
                          Has(was, "resources") /\ now.resources = was.resources)

\* C11 as amended: set_memory_settings gives the memory limit (the configured
\* number of Mi) to the server groups that have a service in the tuning set
\* and leaves every other group, and every group when kernel_mem_limit is
\* zero, as it was; set_cpu_settings gives the cpu limit of twice the online
\* cores to every server group, whatever the tuning set and kernel_mem_limit.
C11_MemoryLimitOnTunedGroups ==
    /\ ReturnedOnServers("set_memory_settings") =>
          /\ Len(config.spec.servers) = Len(last.before.spec.servers)
          /\ \A i \in DOMAIN last.before.spec.servers :
                LET was == last.before.spec.servers[i]
                    now == config.spec.servers[i]
                IN  IF Tuned(was, test_config)
                    THEN now = Put(was, "resources",
                                   [limits |-> [memory |->
                                       << test_config.kernel_mem_limit, "Mi" >>]])
                    ELSE now = was
    /\ ReturnedOnServers("set_cpu_settings") =>
          /\ Len(config.spec.servers) = Len(last.before.spec.servers)
          /\ \A i \in DOMAIN config.spec.servers :
                /\ Has(config.spec.servers[i], "resources")
                /\ config.spec.servers[i].resources.limits
                      = [cpu |-> test_config.online_cores * 2]

\* C11's case: of two server groups, set_memory_settings gave the limit to
\* the data group, which is in the tuning set, and not to the other.
C11_Witness ==
    /\ ReturnedOnServers("set_memory_settings")
    /\ test_config.kernel_mem_limit # 0
    /\ Len(config.spec.servers) = 2
    /\ Tuned(config.spec.servers[1], test_config)
    /\ ~Tuned(config.spec.servers[2], test_config)
    /\ Has(config.spec.servers[1], "resources")
    /\ ~Has(config.spec.servers[2], "resources")

-----------------------------------------------------------------------------
(* Autoscaling.                                                            *)

\* C12 as claimed: the comparison in configure_autoscaling is always true, so
\* after the call every server group of spec.servers has autoscaleEnabled
\* set to true, whatever name was passed.
C12_EveryGroupAutoscaled ==
    ReturnedOnServers("configure_autoscaling") =>
        \A i \in DOMAIN config.spec.servers :
            /\ Has(config.spec.servers[i], "autoscaleEnabled")
            /\ config.spec.servers[i].autoscaleEnabled = TRUE

\* C12 as amended: the comparison in configure_autoscaling is never true, so
\* the call leaves the document as it was: no server group gains
\* autoscaleEnabled, whatever name was passed, that of a group included.
C12_NoGroupAutoscaled ==
    ReturnedOnServers("configure_autoscaling") =>
        /\ config = last.before
        /\ all_configs = last.before_all
        /\ \A i \in DOMAIN config.spec.servers :
              ~Has(config.spec.servers[i], "autoscaleEnabled")

\* C12's case: configure_autoscaling was called with the name of a server
\* group of the document and returned.
C12_Witness ==
    /\ ReturnedOnServers("configure_autoscaling")
    /\ \E i \in DOMAIN last.before.spec.servers :
          last.before.spec.servers[i].name = last.args.sever_group

-----------------------------------------------------------------------------
(* A setter on a document in which the key it looks up is missing.         *)

LookupErrors == {"KeyError", "IndexError"}

SetterOps == {"set_server_spec", "set_backup", "set_exporter", "set_memory_quota",
              "set_services", "set_cpu_settings", "set_memory_settings",
              "configure_autoscaling", "set_cng_version", "set_bucket_settings"}

\* The setter called last raised, and the with-block is not yet left.
SetterRaised == pc = "body" /\ last.op \in SetterOps /\ raised # "none"

\* set_backup('') or set_exporter('') was called last, on a document whose
\* spec did not have the subsection the call removes.
DisabledTwice ==
    \/ /\ last.op = "set_backup"
       /\ last.args.backup_tag = ""
       /\ ~(Has(last.before, "spec") /\ Has(last.before.spec, "backup"))
    \/ /\ last.op = "set_exporter"
       /\ last.args.exporter_tag = ""
       /\ ~(Has(last.before, "spec") /\ Has(last.before.spec, "monitoring"))

\* The with-block was left on a lookup error of a setter: the error goes on
\* to the caller and the destination holds the documents of the object.
WrittenOnLookupError ==
    (/\ last.op = "__exit__"
     /\ last.args.exc \in LookupErrors
     /\ last.args.failed_op \in SetterOps) =>
        /\ raised = last.args.exc
        /\ IsFile(dest_file)
        /\ read_file(dest_file) = all_configs
        /\ last.args.failed_op \in {"set_backup", "set_exporter"} =>
              read_file(dest_file)[1] = last.args.failed_before

\* C13 as claimed: a setter that does not find a key it looks up raises a
\* lookup error and leaves the document as it was; set_backup('') and
\* set_exporter('') on a document without the subsection raise it and are no
\* no-op; when the with-block is left on it, the destination is written with
\* the unchanged document.
C13_LookupErrorLeavesDocument ==
    /\ SetterRaised =>
          /\ raised \in LookupErrors
          /\ config = last.before
          /\ all_configs = last.before_all
    /\ (pc = "body" /\ DisabledTwice) => raised = "KeyError"
    /\ WrittenOnLookupError

\* C13 as amended: the same, but the document keeps what the setter assigned
\* before the lookup that failed: spec.image after set_server_spec,
\* metadata.name after set_bucket_settings, nothing after the other setters
\* (set_backup and set_exporter among them, whose first lookup is the one
\* that fails).
C13_LookupErrorKeepsAssignments ==
    /\ SetterRaised =>
          /\ raised \in LookupErrors
          /\ config =
                IF last.op = "set_server_spec" /\ Has(last.before, "spec")
                THEN Put(last.before, "spec",
                         Put(last.before.spec, "image", last.args.server_tag))
                ELSE IF last.op = "set_bucket_settings" /\ Has(last.before, "metadata")
                THEN Put(last.before, "metadata",
                         Put(last.before.metadata, "name", BucketName))
                ELSE last.before
          /\ all_configs = [last.before_all EXCEPT ![1] = config]
    /\ (pc = "body" /\ DisabledTwice) => raised = "KeyError"
    /\ WrittenOnLookupError

\* C13's case: in one with-block set_backup('') was called on a document
\* whose spec no longer had the backup subsection, and the block was left:
\* the destination holds the document the second call found.
C13_Witness ==
    /\ last.op = "__exit__"
    /\ last.args.failed_op = "set_backup"
    /\ raised = "KeyError"
    /\ Has(last.args.failed_before, "spec")
    /\ ~Has(last.args.failed_before.spec, "backup")
    /\ IsFile(dest_file)
    /\ read_file(dest_file)[1] = last.args.failed_before

-----------------------------------------------------------------------------
(* spring/cbgen4.py: the connection string of CBAsyncGen4 and of CBGen4.   *)
(* A string is a sequence of tokens; "couchbase", "://", "?" and the       *)
(* placeholders "{host}" and "{params}" are tokens of their own, so the    *)
(* replace of 'couchbase' finds every place the text occurs in, the host   *)
(* included.                                                               *)

SecureScheme == << "couchbase", "s" >>
CertPath == "&certpath=root.pem"

\* connstr.format(host=..., params=...)
Format(template, host, params) ==
    Replace(Replace(template, "{host}", host), "{params}", params)

\* kwargs["connstr_params"].pop('enable_tracing', 'false'): what is left.
PopTracing(connstr_params) ==
    SelectSeq(connstr_params, LAMBDA kv : kv[1] # "enable_tracing")

\* parse.urlencode of the pairs of a dict.
RECURSIVE urlencode(_)
urlencode(pairs) ==
    IF pairs = << >> THEN << >>
    ELSE << pairs[1][1], "=", pairs[1][2] >>
            \o (IF Len(pairs) > 1 THEN << "&" >> ELSE << >>)
            \o urlencode(Tail(pairs))

\* CBAsyncGen4.__init__: the string is formatted, then rewritten.
CBAsyncGen4_connstr(host, ssl_mode) ==
    LET formatted == Format(<< "couchbase", "://", "{host}", "?" >>, host, << >>)
    IN  IF ssl_mode = "n2n"
        THEN Replace(formatted, "couchbase", SecureScheme) \o << CertPath >>
        ELSE formatted

\* CBGen4.__init__: the template is rewritten, then formatted.
CBGen4_connstr(ssl_mode, host, connstr_params) ==
    LET template == << "couchbase", "://", "{host}", "?", "{params}" >>
        params == urlencode(PopTracing(connstr_params))
        rewritten == IF ssl_mode = "data" \/ ssl_mode = "n2n"
                     THEN Replace(template, "couchbase", SecureScheme) \o << CertPath >>
                     ELSE template
    IN  Format(rewritten, host, params)

HostTokens == {"couchbase", "cb-0", ".example.com"}
Hosts == UNION {[1..n -> HostTokens] : n \in 1..MaxHostParts}
SslModes == {"none", "data", "n2n"}
ConnstrParams == {<< >>,
                  << << "enable_tracing", "true" >> >>,
                  << << "ipv6", "allow" >>, << "enable_tracing", "false" >> >>}

\* No file object takes part: its variables stay as constructed.
InitConn ==
    /\ kind = "json"
    /\ file_type = InitFileType(kind)
    /\ source_file = FilePath(kind)
    /\ dest_file = DestPath(kind)
    /\ attrs = {}
    /\ all_configs = << >>
    /\ config = EmptyDict
    /\ ini_config = EmptyDict
    /\ version = << >>
    /\ test_config = BaseConfig
    /\ fs = EmptyDict
    /\ pc = "idle"
    /\ raised = "none"
    /\ last = [op |-> "__init__", args |-> NoArgs, before |-> EmptyDict,
               before_all |-> << >>]
    /\ calls = 0
    /\ connstr = << >>

New_CBAsyncGen4 ==
    \E host \in Hosts, ssl_mode \in SslModes :
        /\ connstr' = CBAsyncGen4_connstr(host, ssl_mode)
        /\ last' = Call("CBAsyncGen4",
                        [host |-> host, ssl_mode |-> ssl_mode, connstr_params |-> << >>])
        /\ UNCHANGED fileVars

New_CBGen4 ==
    \E host \in Hosts, ssl_mode \in SslModes, connstr_params \in ConnstrParams :
        /\ connstr' = CBGen4_connstr(ssl_mode, host, connstr_params)
        /\ last' = Call("CBGen4",
                        [host |-> host, ssl_mode |-> ssl_mode,
                         connstr_params |-> connstr_params])
        /\ UNCHANGED fileVars

NextConn == New_CBAsyncGen4 \/ New_CBGen4

SpecConn == InitConn /\ [][NextConn]_vars

\* The place of the first token t in s (Len(s) + 1 when there is none).
IndexOf(s, t) ==
    IF t \in Range(s) THEN CHOOSE i \in DOMAIN s : s[i] = t /\ \A j \in 1..(i - 1) : s[j] # t
    ELSE Len(s) + 1

\* What a connection string has before "://", and between "://" and "?".
SchemeOf(s) == SubSeq(s, 1, IndexOf(s, "://") - 1)
HostOf(s) == SubSeq(s, IndexOf(s, "://") + 1, IndexOf(s, "?") - 1)

\* The TLS modes under which a connection is encrypted.
SecureModes == {"data", "n2n"}

\* C10: the connection string of either client has the scheme couchbases and
\* the parameter certpath=root.pem when the TLS mode is a secure one, and the
\* scheme couchbase and no certpath otherwise; its host is the configured
\* host; and both clients choose the same scheme for the same TLS mode.
C10_ConnectionString ==
    last.op \in {"CBAsyncGen4", "CBGen4"} =>
        LET secure == last.args.ssl_mode \in SecureModes
        IN  /\ SchemeOf(connstr) = IF secure THEN << "couchbase", "s" >> ELSE << "couchbase" >>
            /\ (CertPath \in Range(connstr)) <=> secure
            /\ HostOf(connstr) = last.args.host
            /\ SchemeOf(CBAsyncGen4_connstr(last.args.host, last.args.ssl_mode))
                  = SchemeOf(CBGen4_connstr(last.args.ssl_mode, last.args.host,
                                            last.args.connstr_params))

\* What holds of CBGen4 alone (C10 without CBAsyncGen4).
CBGen4ConnectionString ==
    last.op = "CBGen4" =>
        LET secure == last.args.ssl_mode \in SecureModes
        IN  /\ SchemeOf(connstr) = IF secure THEN << "couchbase", "s" >> ELSE << "couchbase" >>
            /\ (CertPath \in Range(connstr)) <=> secure
            /\ HostOf(connstr) = last.args.host

\* What holds of CBAsyncGen4 in the mode "n2n": the host is the configured one
\* unless it contains the text 'couchbase'.
CBAsyncGen4HostUnlessCouchbase ==
    (last.op = "CBAsyncGen4" /\ "couchbase" \notin Range(last.args.host)) =>
        /\ HostOf(connstr) = last.args.host
        /\ SchemeOf(connstr) =
              IF last.args.ssl_mode = "n2n" THEN << "couchbase", "s" >> ELSE << "couchbase" >>

=============================================================================
